---- MODULE Spec2Model ----
(***************************************************************************)
(* microbundle: synthesis of the build plan (one step per entry x format)  *)
(* and its batch execution.                                                *)
(*                                                                         *)
(* Strings are sequences of one-character strings, so that the regular     *)
(* expressions and path operations of the source are computed character by *)
(* character.  The empty string <<>> also stands for undefined: every use  *)
(* of an optional string in the source is a truthiness test.               *)
(***************************************************************************)
EXTENDS Integers, Sequences, FiniteSets, TLC

(* ------------------------------------------------------------------ *)
(* Bounds of the model                                                *)
(* ------------------------------------------------------------------ *)
\* longest list of requested entries (options.entries)
MaxEntries == 2
\* longest comma-separated list of requested formats (options.format)
MaxFormats == 2
\* most builds one watcher runs (the first build and the rebuilds)
MaxBuilds == 2

(* ------------------------------------------------------------------ *)
(* String literals of the source                                      *)
(* ------------------------------------------------------------------ *)
s_cjs == <<"c","j","s">>
s_es == <<"e","s">>
s_esm == <<"e","s","m">>
s_umd == <<"u","m","d">>
s_modern == <<"m","o","d","e","r","n">>
s_m == <<"m">>
s_mjs == <<"m","j","s">>
s_js == <<"j","s">>
s_jsx == <<"j","s","x">>
s_ts == <<"t","s">>
s_tsx == <<"t","s","x">>
s_index == <<"i","n","d","e","x">>
s_src == <<"s","r","c">>
s_dist == <<"d","i","s","t">>
s_none == <<"n","o","n","e">>
s_dot_ts == <<".","t","s">>
s_dot_tsx == <<".","t","s","x">>
s_dot_js == <<".","j","s">>
s_src_index == <<"s","r","c","/","i","n","d","e","x">>
s_index_js == <<"i","n","d","e","x",".","j","s">>
s_x_esm_js == <<"x",".","e","s","m",".","j","s">>
s_x_modern_js == <<"x",".","m","o","d","e","r","n",".","j","s">>
s_x_js == <<"x",".","j","s">>
s_x_umd_js == <<"x",".","u","m","d",".","j","s">>
s_src_slash == <<"s","r","c","/">>
s_dns == <<"d","n","s">>
s_fs == <<"f","s">>
s_path == <<"p","a","t","h">>
s_url == <<"u","r","l">>
s_helpers == <<"b","a","b","e","l","-","p","l","u","g","i","n","-","t","r","a","n","s","f","o","r","m","-","a","s","y","n","c","-","t","o","-","p","r","o","m","i","s","e","s","/","h","e","l","p","e","r","s">>
s_dot == <<".">>
s_slash == <<"/">>

\* process.cwd(), the directory every relative path is resolved against
s_cwd == <<"/","p">>

(* ------------------------------------------------------------------ *)
(* String primitives (JavaScript String / RegExp semantics)           *)
(* ------------------------------------------------------------------ *)
\* the characters a-z in code-unit order
LowerCase == <<"a","b","c","d","e","f","g","h","i","j","k","l","m",
               "n","o","p","q","r","s","t","u","v","w","x","y","z">>

IsLower(c) == \E i \in 1..Len(LowerCase) : LowerCase[i] = c

\* code-unit order of the characters the model compares (a-z)
CharCode(c) == CHOOSE i \in 1..Len(LowerCase) : LowerCase[i] = c

Truthy(s) == s # <<>>

\* a || b on optional strings
Or(a, b) == IF Truthy(a) THEN a ELSE b

Take(s, n) == SubSeq(s, 1, n)

Drop(s, n) == SubSeq(s, n + 1, Len(s))

StartsWith(s, p) == Len(s) >= Len(p) /\ Take(s, Len(p)) = p

EndsWith(s, p) == Len(s) >= Len(p) /\ Drop(s, Len(s) - Len(p)) = p

SetMax(S) == CHOOSE x \in S : \A y \in S : y <= x

SetMin(S) == CHOOSE x \in S : \A y \in S : x <= y

\* String.prototype.lastIndexOf, 1-based, 0 when absent
LastIndexOf(s, c) ==
    LET I == {i \in 1..Len(s) : s[i] = c}
    IN  IF I = {} THEN 0 ELSE SetMax(I)

\* String.prototype.indexOf, 1-based, 0 when absent
IndexOf(s, c) ==
    LET I == {i \in 1..Len(s) : s[i] = c}
    IN  IF I = {} THEN 0 ELSE SetMin(I)

\* s.match(sub) for a literal sub: sub occurs somewhere in s
Contains(s, sub) ==
    \E i \in 0..(Len(s) - Len(sub)) : SubSeq(s, i + 1, i + Len(sub)) = sub

\* a > b on strings of lower-case letters (lexicographic by code unit)
RECURSIVE StrGt(_, _)
StrGt(a, b) ==
    IF a = <<>> THEN FALSE
    ELSE IF b = <<>> THEN TRUE
    ELSE IF a[1] # b[1] THEN CharCode(a[1]) > CharCode(b[1])
    ELSE StrGt(Tail(a), Tail(b))

\* String.prototype.split(','): never empty, even for the empty string
RECURSIVE Split(_)
Split(s) ==
    LET i == IndexOf(s, ",")
    IN  IF i = 0 THEN <<s>> ELSE <<Take(s, i - 1)>> \o Split(Drop(s, i))

\* Array.prototype.join(',')
RECURSIVE Join(_)
Join(list) ==
    IF list = <<>> THEN <<>>
    ELSE IF Len(list) = 1 THEN list[1]
    ELSE list[1] \o <<",">> \o Join(Tail(list))

\* arr.indexOf(item), 1-based, 0 when absent
SeqIndexOf(arr, item) ==
    LET I == {i \in 1..Len(arr) : arr[i] = item}
    IN  IF I = {} THEN 0 ELSE SetMin(I)

\* [[a, b], [c]] -> [a, b, c]   (forEach(file => input.push(...file)))
RECURSIVE Flatten(_)
Flatten(lists) ==
    IF lists = <<>> THEN <<>> ELSE Head(lists) \o Flatten(Tail(lists))

Range(s) == {s[i] : i \in 1..Len(s)}

(* ------------------------------------------------------------------ *)
(* path module (POSIX), on paths without '.', '..' or empty segments   *)
(* ------------------------------------------------------------------ *)
IsAbsolute(p) == Len(p) > 0 /\ p[1] = "/"

basename(p) == Drop(p, LastIndexOf(p, "/"))

dirname(p) ==
    LET i == LastIndexOf(p, "/")
    IN  IF i = 0 THEN s_dot ELSE IF i = 1 THEN s_slash ELSE Take(p, i - 1)

\* path.resolve(from, to): the rightmost absolute argument wins, a relative
\* `from` is resolved against process.cwd()
resolve(from, to) ==
    LET base == IF IsAbsolute(from) THEN from
                ELSE IF from = s_dot THEN s_cwd
                ELSE s_cwd \o s_slash \o from
    IN  IF IsAbsolute(to) THEN to
        ELSE IF to = <<>> \/ to = s_dot THEN base
        ELSE IF base = s_slash THEN base \o to
        ELSE base \o s_slash \o to

\* path.relative(from, to) for `to` at or under `from`
relative(from, to) ==
    IF to = from THEN <<>>
    ELSE IF StartsWith(to, from \o s_slash) THEN Drop(to, Len(from) + 1)
    ELSE to

(* ------------------------------------------------------------------ *)
(* formats.sort((a, b) => (a === 'cjs' ? -1 : a > b ? 1 : 0))           *)
(*                                                                    *)
(* The comparator is not a consistent ordering, so the result depends  *)
(* on the algorithm of the host's Array.prototype.sort.  Both          *)
(* algorithms V8 has shipped for short arrays are modelled: the        *)
(* insertion sort of Node < 11 and the TimSort of Node >= 11, which    *)
(* for fewer than 64 elements is a run detection followed by a binary  *)
(* insertion sort.                                                     *)
(* ------------------------------------------------------------------ *)
comparefn(a, b) == IF a = s_cjs THEN -1 ELSE IF StrGt(a, b) THEN 1 ELSE 0

Reverse(s) == [i \in 1..Len(s) |-> s[Len(s) + 1 - i]]

InsertAt(s, pos, e) == Take(s, pos) \o <<e>> \o Drop(s, pos)

\* legacy insertion sort: the inner loop walks left while comparefn(tmp, element) > 0
RECURSIVE LegacyPos(_, _, _)
LegacyPos(a, element, j) ==
    IF j = 0 THEN 0
    ELSE IF comparefn(a[j], element) > 0 THEN LegacyPos(a, element, j - 1)
    ELSE j

RECURSIVE InsertionSort(_, _)
InsertionSort(done, rest) ==
    IF rest = <<>> THEN done
    ELSE InsertionSort(
             InsertAt(done, LegacyPos(done, Head(rest), Len(done)), Head(rest)),
             Tail(rest))

\* TimSort CountAndMakeRun: length of the run starting at the first element
RECURSIVE RunLength(_, _, _)
RunLength(a, idx, isDescending) ==
    IF idx > Len(a) THEN idx - 1
    ELSE LET order == comparefn(a[idx], a[idx - 1])
         IN  IF (isDescending /\ order >= 0) \/ (~isDescending /\ order < 0)
             THEN idx - 1
             ELSE RunLength(a, idx + 1, isDescending)

\* TimSort BinaryInsertionSort: position of the pivot in a[1..start-1]
RECURSIVE BinaryPos(_, _, _, _)
BinaryPos(a, pivot, left, right) ==
    IF left >= right THEN left
    ELSE LET mid == left + ((right - left) \div 2)
         IN  IF comparefn(pivot, a[mid + 1]) < 0
             THEN BinaryPos(a, pivot, left, mid)
             ELSE BinaryPos(a, pivot, mid + 1, right)

RECURSIVE BinaryInsertionSort(_, _)
BinaryInsertionSort(done, rest) ==
    IF rest = <<>> THEN done
    ELSE BinaryInsertionSort(
             InsertAt(done, BinaryPos(done, Head(rest), 0, Len(done)), Head(rest)),
             Tail(rest))

TimSort(a) ==
    IF Len(a) < 2 THEN a
    ELSE LET isDescending == comparefn(a[2], a[1]) < 0
             n == RunLength(a, 3, isDescending)
             run == IF isDescending THEN Reverse(Take(a, n)) ELSE Take(a, n)
         IN  BinaryInsertionSort(run, Drop(a, n))

\* the sorts a host can run
SortEngines == {"timsort", "insertion"}

sortFormats(formats, host) ==
    IF host = "timsort" THEN TimSort(formats) ELSE InsertionSort(<<>>, formats)

(* ------------------------------------------------------------------ *)
(* The inputs the model draws from: paths, package names, file systems *)
(* ------------------------------------------------------------------ *)
n_demo == <<"d","e","m","o">>
n_scoped_demo == <<"@","s","/">> \o n_demo
n_react == <<"r","e","a","c","t">>
n_preact == <<"p">> \o n_react
n_lodash == <<"l","o","d","a","s","h">>
n_debounce == <<"d","e","b","o","u","n","c","e">>
n_lodash_debounce == n_lodash \o s_dot \o n_debounce
s_lib == <<"l","i","b">>
s_a_js == <<"a">> \o s_dot_js

\* requested entries, as given on the command line
p_src_index_js == s_src_index \o s_dot_js
p_src_a_js == s_src_slash \o s_a_js
p_abs_src_a_js == s_cwd \o s_slash \o p_src_a_js
p_lib_a_js == s_lib \o s_slash \o s_a_js
p_src_glob == s_src_slash \o <<"*">> \o s_dot_js
p_src_x_js == s_src_slash \o <<"x">> \o s_dot_js

\* files and directories of the project
f_src_index_js == s_cwd \o s_slash \o p_src_index_js
f_src_a_js == s_cwd \o s_slash \o p_src_a_js
f_lib_a_js == s_cwd \o s_slash \o p_lib_a_js
f_index_ts == s_cwd \o s_slash \o s_index \o s_dot_ts
d_src == s_cwd \o s_slash \o s_src
d_lib == s_cwd \o s_slash \o s_lib

\* output targets and manifest main fields
o_out_m_umd_js == <<"o","u","t","/","m">> \o s_dot \o s_umd \o s_dot_js
o_dist_demo_mjs == s_dist \o s_slash \o n_demo \o s_dot \o s_mjs
o_dist_demo_min_js == s_dist \o s_slash \o n_demo \o <<".","m","i","n">> \o s_dot_js
o_dist_demo_modern_mjs == s_dist \o s_slash \o n_demo \o s_dot \o s_modern \o s_dot \o s_mjs

\* the order in which a directory listing returns the project's files
FileOrder == <<f_index_ts, f_lib_a_js, f_src_a_js, f_src_index_js>>

FsProject == [files |-> {f_src_index_js, f_src_a_js, f_lib_a_js},
              dirs |-> {s_cwd, d_src, d_lib}]

FsTopLevel == [files |-> {f_index_ts}, dirs |-> {s_cwd}]

FsEmpty == [files |-> {}, dirs |-> {s_cwd}]

FileSystems == {FsProject, FsTopLevel, FsEmpty}

EntryPatterns ==
    {p_src_index_js, p_src_a_js, p_abs_src_a_js, p_lib_a_js, p_src_glob, s_src}

Formats == {s_cjs, s_es, s_esm, s_umd, s_modern}

\* all sequences over S of length 0..n
RECURSIVE SeqsUpTo(_, _)
SeqsUpTo(S, n) ==
    IF n = 0 THEN {<<>>}
    ELSE LET shorter == SeqsUpTo(S, n - 1)
         IN  shorter \cup {Append(q, x) : q \in shorter, x \in S}

EntryLists == SeqsUpTo(EntryPatterns, MaxEntries)

\* the --format argument: 1..MaxFormats format names joined by commas
FormatArgs == {Join(q) : q \in SeqsUpTo(Formats, MaxFormats) \ {<<>>}}

NoOverrides == [module |-> <<>>, jsnext |-> <<>>, cjsMain |-> <<>>,
                umdMain |-> <<>>, esmodule |-> <<>>]

\* a manifest with no optional field
BarePkg == [name |-> n_demo, source |-> <<>>, main |-> <<>>,
            dependencies |-> <<>>, peerDependencies |-> <<>>,
            overrides |-> NoOverrides]

\* source texts: a module without a shebang line and two with one
c_plain == <<"x">>
c_bang_a == <<"#","!","a","\n","x">>
c_bang_b == <<"#","!","b","\n","y">>

\* every file of every project has a text; this one has no shebang anywhere
PlainSources == [f \in UNION {fs.files : fs \in FileSystems} |-> c_plain]

(* ------------------------------------------------------------------ *)
(* State                                                              *)
(* ------------------------------------------------------------------ *)
VARIABLES
    inputOptions,  \* the options microbundle is invoked with
    pkg,           \* the manifest (package.json) as getConfigFromPkgJson returns it
    fsys,          \* the file system: [files, dirs]
    mangleFile,    \* the mangle cache file: "missing", "corrupt" or "valid"
    pc,            \* "start", "batch", "watch", "done", "failed"
    options,       \* the fields microbundle computes: input, output, entries, ...
    steps,         \* the plan: the configs createConfig returned, in order
    cur,           \* batch: index of the task series() is running
    phase,         \* batch: "rollup", "write" or "size" within the task
    cache,         \* batch: the `cache` variable of microbundle
    given,         \* batch: inputOptions.cache of each step once its task ran
    out,           \* batch: the steps whose size report was collected, in order
    cacheWrites,   \* steps whose writeBundle hook wrote the mangle cache file
    cssExtracts,   \* steps whose postcss stage extracted the stylesheet
    watchers,      \* watch: one rollup watcher per step, with what its handler did
    sources,       \* the text of each source file
    shebang,       \* the module-level `shebang` map of line 204
    recorded,      \* <<key, step>>: the steps whose transform wrote shebang[key]
    seen,          \* per built step, the code its shebang stage passed on
    banners,       \* per written step, the banner its output was given
    mangleIds,     \* the identifiers the mangle cache file maps, when it parses
    nameCaches,    \* per step, the name cache objects of its createConfig call
    cacheLog       \* what each write of the mangle cache file wrote

vars == <<inputOptions, pkg, fsys, mangleFile, pc, options, steps, cur, phase,
          cache, given, out, cacheWrites, cssExtracts, watchers, sources,
          shebang, recorded, seen, banners, mangleIds, nameCaches, cacheLog>>

env == <<inputOptions, pkg, fsys, sources>>

shebangVars == <<shebang, recorded, seen, banners>>

cacheVars == <<mangleIds, nameCaches, cacheLog>>

(* ------------------------------------------------------------------ *)
(* utils.js and tiny-glob                                             *)
(* ------------------------------------------------------------------ *)
isDir(p) == p \in fsys.dirs

isFile(p) == p \in fsys.files

\* name.replace(/^@.*\//, ''): '.*' is greedy, up to the last slash
removeScope(name) ==
    IF Len(name) > 0 /\ name[1] = "@" /\ LastIndexOf(name, "/") > 0
    THEN Drop(name, LastIndexOf(name, "/"))
    ELSE name

\* pattern pat with one '*' (any run of characters other than '/') matches f
GlobMatch(pat, f) ==
    LET i == IndexOf(pat, "*")
        pre == Take(pat, i - 1)
        suf == Drop(pat, i)
    IN  /\ StartsWith(f, pre)
        /\ EndsWith(f, suf)
        /\ Len(f) >= Len(pre) + Len(suf)
        /\ \A k \in (Len(pre) + 1)..(Len(f) - Len(suf)) : f[k] # "/"

\* glob(str): a path without a wildcard is returned as given when it exists
\* (file or directory); a pattern expands to the files it matches
glob(str) ==
    IF IndexOf(str, "*") = 0
    THEN IF isFile(resolve(s_cwd, str)) \/ isDir(resolve(s_cwd, str))
         THEN <<str>> ELSE <<>>
    ELSE LET pat == resolve(s_cwd, str)
             Hit(f) == isFile(f) /\ GlobMatch(pat, f)
             hits == SelectSeq(FileOrder, Hit)
         IN  [i \in 1..Len(hits) |->
                 IF IsAbsolute(str) THEN hits[i] ELSE relative(s_cwd, hits[i])]

(* ------------------------------------------------------------------ *)
(* jsOrTs, getInput, getOutput, getEntries                            *)
(* ------------------------------------------------------------------ *)
jsOrTs(cwd, filename) ==
    LET extension == IF isFile(resolve(cwd, filename \o s_dot_ts)) THEN s_dot_ts
                     ELSE IF isFile(resolve(cwd, filename \o s_dot_tsx)) THEN s_dot_tsx
                     ELSE s_dot_js
    IN  resolve(cwd, filename \o extension)

getInput(entries, cwd, source, module) ==
    LET candidates ==
            IF Len(entries) > 0 THEN entries
            ELSE IF Len(source) > 0
                 THEN [i \in 1..Len(source) |-> resolve(cwd, source[i])]
            ELSE <<Or(IF isDir(resolve(cwd, s_src))
                      THEN jsOrTs(cwd, s_src_index) ELSE <<>>,
                      Or(jsOrTs(cwd, s_index), module))>>
    IN  Flatten([i \in 1..Len(candidates) |-> glob(candidates[i])])

\* main.match(/\.[a-z]+$/)
HasExtension(main) ==
    \E i \in 1..(Len(main) - 1) :
        main[i] = "." /\ \A k \in (i + 1)..Len(main) : IsLower(main[k])

getOutput(cwd, output, pkgMain, pkgName) ==
    LET main == resolve(cwd, Or(output, Or(pkgMain, s_dist)))
    IN  IF ~HasExtension(main) \/ isDir(main)
        THEN resolve(main, removeScope(pkgName) \o s_dot_js)
        ELSE main

\* .filter((item, i, arr) => arr.indexOf(item) === i)
Dedup(arr) ==
    LET idx == {i \in 1..Len(arr) : SeqIndexOf(arr, arr[i]) = i}
        Kth(k) == CHOOSE i \in idx : Cardinality({j \in idx : j <= i}) = k
    IN  [k \in 1..Cardinality(idx) |-> arr[Kth(k)]]

getEntries(input, cwd) ==
    LET file(i) == resolve(cwd, input[i])
    IN  Dedup([i \in 1..Len(input) |->
                 IF isDir(file(i)) THEN resolve(file(i), s_index_js) ELSE file(i)])

(* ------------------------------------------------------------------ *)
(* createConfig                                                       *)
(* ------------------------------------------------------------------ *)
\* (mjs|[tj]sx?)
JsExtensions == {s_mjs, s_js, s_jsx, s_ts, s_tsx}

\* (umd|cjs|es|m)
FormatInfixes == {s_umd, s_cjs, s_es, s_m}

\* the strings (\.(umd|cjs|es|m))?\.(mjs|[tj]sx?) matches
ExtensionSuffixes ==
    {s_dot \o e : e \in JsExtensions}
        \cup {s_dot \o f \o s_dot \o e : f \in FormatInfixes, e \in JsExtensions}

\* s.replace(/(\.(umd|cjs|es|m))?\.(mjs|[tj]sx?)$/, ''): the leftmost match,
\* which for a pattern anchored at the end is the longest suffix
stripExtension(s) ==
    LET hits == {x \in ExtensionSuffixes : EndsWith(s, x)}
        longest == CHOOSE x \in hits : \A y \in hits : Len(y) <= Len(x)
    IN  IF hits = {} THEN s ELSE Take(s, Len(s) - Len(longest))

\* entry.match(/([\\/])index(\.(umd|cjs|es|m))?\.(mjs|[tj]sx?)$/)
isIndexEntry(entry) ==
    \E sep \in {"/", "\\"}, x \in ExtensionSuffixes :
        EndsWith(entry, <<sep>> \o s_index \o x)

\* basename(filename).replace(/^[^.]+/, '')
dropStem(b) ==
    LET i == IndexOf(b, ".")
    IN  IF i = 0 THEN <<>> ELSE Drop(b, i - 1)

replaceName(filename, name) ==
    resolve(dirname(filename), name \o dropStem(basename(filename)))

\* new RegExp(`^(${external.join('|')})($|/)`).test(id) for one alternative:
\* the names are pasted unescaped, so a '.' of a name matches any character
MatchAlternative(alt, id) ==
    /\ Len(id) >= Len(alt)
    /\ \A i \in 1..Len(alt) : alt[i] = "." \/ alt[i] = id[i]
    /\ (Len(id) = Len(alt) \/ id[Len(alt) + 1] = "/")

externalTest(external, id) ==
    IF Len(external) = 0 THEN FALSE
    ELSE \E k \in 1..Len(external) : MatchAlternative(external[k], id)

\* the external list of one step (lines 209-230)
externals(entries, entry) ==
    LET Other(e) == e # entry
        external == <<s_dns, s_fs, s_path, s_url>> \o SelectSeq(entries, Other)
        peerDeps == pkg.peerDependencies
    IN  IF inputOptions.external = s_none THEN external
        ELSE IF Truthy(inputOptions.external)
             THEN external \o peerDeps \o Split(inputOptions.external)
        ELSE external \o peerDeps \o pkg.dependencies

\* mainNoExtension (lines 258-268)
mainNoExtension(opts, entry) ==
    LET name == IF isIndexEntry(entry) THEN opts.output ELSE entry
    IN  stripExtension(IF opts.multipleEntries
                       THEN resolve(dirname(opts.output), basename(name))
                       ELSE opts.output)

\* outputOptions.file (lines 270-281 and 503-510)
outputFile(opts, entry, format) ==
    LET main == mainNoExtension(opts, entry)
        o == pkg.overrides
        moduleMain == replaceName(
                          IF Truthy(o.module) /\ ~Contains(o.module, s_src_slash)
                          THEN o.module ELSE Or(o.jsnext, s_x_esm_js),
                          main)
        modernMain == replaceName(Or(o.esmodule, s_x_modern_js), main)
        cjsMain == replaceName(Or(o.cjsMain, s_x_js), main)
        umdMain == replaceName(Or(o.umdMain, s_x_umd_js), main)
    IN  resolve(opts.cwd,
                IF format = s_modern THEN modernMain
                ELSE IF format = s_es THEN moduleMain
                ELSE IF format = s_umd THEN umdMain
                ELSE cjsMain)

\* loadNameCache() at configuration time: null unless the file parses
nameCacheLoaded == mangleFile = "valid"

\* createConfig with a fault: the modern build externalises nothing
createConfigModernBundlesAll(opts, entry, format, writeMeta) ==
    LET modern == format = s_modern
    IN  [entry |-> entry,
         format |-> format,
         writeMeta |-> writeMeta,
         external |-> IF modern THEN <<>> ELSE externals(opts.entries, entry),
         multipleEntries |-> opts.multipleEntries,
         cache |-> IF modern THEN "false" ELSE "undefined",
         extract |-> writeMeta,
         nameCacheHook |-> inputOptions.compress /\ nameCacheLoaded,
         outFormat |-> IF modern THEN s_es ELSE format,
         file |-> outputFile(opts, entry, format)]

createConfig(opts, entry, format, writeMeta) ==
    LET modern == format = s_modern
    IN  [entry |-> entry,
         format |-> format,
         writeMeta |-> writeMeta,
         external |-> externals(opts.entries, entry),
         multipleEntries |-> opts.multipleEntries,
         cache |-> IF modern THEN "false" ELSE "undefined",
         extract |-> writeMeta,
         nameCacheHook |-> inputOptions.compress /\ nameCacheLoaded,
         outFormat |-> IF modern THEN s_es ELSE format,
         file |-> outputFile(opts, entry, format)]

\* inputOptions.external of a step
externalOf(step, id) ==
    IF id = s_helpers THEN FALSE
    ELSE IF step.multipleEntries /\ id = s_dot THEN TRUE
    ELSE externalTest(step.external, id)

(* ------------------------------------------------------------------ *)
(* The shebang stage: lines 203-204, 373-381 and 498-500              *)
(*                                                                    *)
(* A map is a set of <<key, value>> pairs with one pair per key.      *)
(* ------------------------------------------------------------------ *)
Put(map, key, value) == {p \in map : p[1] # key} \cup {<<key, value>>}

Has(map, key) == \E p \in map : p[1] = key

Get(map, key) == (CHOOSE p \in map : p[1] = key)[2]

s_undefined == <<"u","n","d","e","f","i","n","e","d">>

\* package-info.getName: the build name, one per invocation
getName(pkgName) == removeScope(pkgName)

\* length of the match of /^#![^\n]*/ in code, 0 when there is none
ShebangLength(code) ==
    IF Len(code) >= 2 /\ code[1] = "#" /\ code[2] = "!"
    THEN LET nl == {i \in 1..Len(code) : code[i] = "\n"}
         IN  IF nl = {} THEN Len(code) ELSE SetMin(nl) - 1
    ELSE 0

HasShebang(code) == ShebangLength(code) > 0

\* the `bang` the replacer function is called with
bangOf(code) == Take(code, ShebangLength(code))

\* code.replace(/^#![^\n]*/, bang => { shebang[options.name] = bang; }):
\* the replacer returns undefined, which replace() converts to a string
stripShebang(code) ==
    IF HasShebang(code) THEN s_undefined \o Drop(code, ShebangLength(code))
    ELSE code

\* shebang[options.name] = bang, when the pattern matches
recordShebang(table, name, code) ==
    IF HasShebang(code) THEN Put(table, name, bangOf(code)) ELSE table

\* get banner() { return shebang[options.name]; }
bannerOf(table, name) == IF Has(table, name) THEN Get(table, name) ELSE <<>>

\* rollup runs the transform hooks on a module unless the cache it was given
\* holds that module; a bundle holds the modules of its own build, here the
\* entry (every other entry is external)
transformRuns(step, givenCache) ==
    \/ givenCache.kind # "bundle"
    \/ steps[givenCache.of].entry # step.entry

(* ------------------------------------------------------------------ *)
(* The name cache: lines 287-320 and 436-474                          *)
(*                                                                    *)
(* createConfig hands terser the object `nameCache` refers to when    *)
(* the configuration is built.  `aliased` says that the variable      *)
(* nameCache still refers to that object; loadNameCache makes it      *)
(* refer to a new object, parsed from the file.                       *)
(* ------------------------------------------------------------------ *)
NullCache == [isNull |-> TRUE, aliased |-> TRUE, own |-> {}, terser |-> {}]

\* lines 287-320: nameCache after loadNameCache() and line 320
createNameCache ==
    IF mangleFile = "valid"
    THEN [isNull |-> FALSE, aliased |-> TRUE, own |-> {}, terser |-> mangleIds]
    ELSE NullCache

\* loadNameCache as the `options` hook of line 462; a file that cannot be
\* read or parsed leaves nameCache as it is
loadNameCache(nc) ==
    IF mangleFile = "valid"
    THEN [nc EXCEPT !.aliased = FALSE, !.own = mangleIds]
    ELSE nc

\* the value of the variable nameCache
nameCacheValue(nc) == IF nc.aliased THEN nc.terser ELSE nc.own

\* the properties terser mangles in the bundle of an entry: one per entry,
\* named after the first letter of the file
propsOf(entry) == {Head(basename(entry))}

\* terser updates the nameCache object of its options in place (line 458)
minify(nc, entry) ==
    IF nc.isNull THEN nc ELSE [nc EXCEPT !.terser = @ \cup propsOf(entry)]

(* ------------------------------------------------------------------ *)
(* doWatch: lines 123-148                                             *)
(*                                                                    *)
(* One rollup watcher per step.  A watcher runs a build when it is    *)
(* created and after a file change, and reports it to the handler of  *)
(* lines 133-145 as events: START when the build begins, then END     *)
(* when every bundle was written or ERROR when the build threw.       *)
(* ------------------------------------------------------------------ *)
\* a watcher as watch() returns it: its first build is under way
NewWatcher == [state |-> "building", dirty |-> FALSE, runs |-> 1,
               last |-> "START", pending |-> 0, did |-> <<>>]

\* steps.map(options => { watch(...).on('event', ...) }), lines 128-146
doWatch(plan) == [k \in 1..Len(plan) |-> NewWatcher]

\* the handler with a fault: an ERROR event closes the watcher
onEventErrorCloses(w, code) ==
    IF code = "ERROR"
    THEN [w EXCEPT !.did = Append(@, "logError"), !.state = "closed"]
    ELSE IF code = "END"
    THEN [w EXCEPT !.pending = @ + 1,
                   !.did = IF inputOptions.onBuild THEN Append(@, "onBuild") ELSE @]
    ELSE w

\* the handler of lines 133-145, for an event of code `code`: what it logs,
\* the reaction it registers on _sizeInfo and the callback it calls
onEvent(w, code) ==
    IF code = "ERROR"
    THEN [w EXCEPT !.did = Append(@, "logError")]
    ELSE IF code = "END"
    THEN [w EXCEPT !.pending = @ + 1,
                   !.did = IF inputOptions.onBuild THEN Append(@, "onBuild") ELSE @]
    ELSE w

(* ------------------------------------------------------------------ *)
(* microbundle: lines 37-102, up to the plan                          *)
(* ------------------------------------------------------------------ *)
\* the nested loops of lines 86-98
buildSteps(opts, formats) ==
    Flatten([i \in 1..Len(opts.entries) |->
               [j \in 1..Len(formats) |->
                  createConfig(opts, opts.entries[i], formats[j], i = 1 /\ j = 1)]])

Microbundle ==
    /\ pc = "start"
    /\ \E host \in SortEngines :
         LET cwd == s_cwd
             input == getInput(inputOptions.entries, cwd, pkg.source,
                               pkg.overrides.module)
             output == getOutput(cwd, inputOptions.output, pkg.main, pkg.name)
             entries == getEntries(input, cwd)
             opts == [cwd |-> cwd, input |-> input, output |-> output,
                      entries |-> entries, multipleEntries |-> Len(entries) > 1]
             formats == sortFormats(
                            Split(Or(inputOptions.format, inputOptions.formats)),
                            host)
         IN  /\ options' = [cwd |-> cwd, name |-> getName(pkg.name),
                            input |-> input, output |-> output,
                            entries |-> entries,
                            multipleEntries |-> Len(entries) > 1,
                            formats |-> formats]
             /\ steps' = buildSteps(opts, formats)
             /\ watchers' = IF inputOptions.watch
                            THEN doWatch(buildSteps(opts, formats))
                            ELSE watchers
             /\ nameCaches' = [k \in 1..Len(buildSteps(opts, formats)) |->
                                 createNameCache]
    /\ pc' = IF inputOptions.watch THEN "watch" ELSE "batch"
    /\ UNCHANGED <<env, shebangVars, mangleFile, mangleIds, cacheLog, cur, phase,
                   cache, given, out, cacheWrites, cssExtracts>>

(* ------------------------------------------------------------------ *)
(* Initial states                                                     *)
(* ------------------------------------------------------------------ *)
NoBundle == [kind |-> "undefined", of |-> 0]

InitProgram ==
    /\ pc = "start"
    /\ options = [cwd |-> s_cwd, name |-> <<>>, input |-> <<>>, output |-> <<>>,
                  entries |-> <<>>, multipleEntries |-> FALSE, formats |-> <<>>]
    /\ steps = <<>>
    /\ cur = 1
    /\ phase = "rollup"
    /\ cache = NoBundle
    /\ given = <<>>
    /\ out = <<>>
    /\ cacheWrites = {}
    /\ cssExtracts = {}
    /\ watchers = <<>>
    /\ shebang = {}
    /\ recorded = {}
    /\ seen = {}
    /\ banners = {}
    /\ nameCaches = <<>>
    /\ cacheLog = <<>>

\* the CLI's default for --format
DefaultFormats == Join(<<s_modern, s_es, s_cjs, s_umd>>)

\* entries and formats vary; the project is complete
InitPaths ==
    /\ inputOptions \in [entries : EntryLists,
                         output : {<<>>, o_out_m_umd_js},
                         format : FormatArgs,
                         formats : {DefaultFormats},
                         external : {<<>>},
                         watch : {FALSE},
                         compress : {TRUE},
                         onBuild : {FALSE}]
    /\ pkg = [BarePkg EXCEPT !.dependencies = <<n_react>>]
    /\ fsys = FsProject
    /\ mangleFile = "missing"
    /\ mangleIds = {}
    /\ sources = PlainSources

\* no or missing entries; the file system and the manifest's source vary
InitResolve ==
    /\ inputOptions \in [entries : {<<>>, <<p_src_x_js>>},
                         output : {<<>>},
                         format : {<<>>, s_cjs, Join(<<s_es, s_cjs>>)},
                         formats : {DefaultFormats},
                         external : {<<>>},
                         watch : BOOLEAN,
                         compress : {TRUE},
                         onBuild : {FALSE}]
    /\ \E source \in {<<>>, <<p_src_a_js>>, <<p_src_x_js>>, <<p_src_a_js, p_lib_a_js>>},
          module \in {<<>>, p_lib_a_js} :
          pkg = [BarePkg EXCEPT !.source = source, !.overrides.module = module]
    /\ fsys \in FileSystems
    /\ mangleFile = "missing"
    /\ mangleIds = {}
    /\ sources = PlainSources

\* entries, formats, the external override and the manifest's dependencies vary
InitExternal ==
    /\ inputOptions \in
           [entries : SeqsUpTo({p_src_index_js, p_src_a_js, p_lib_a_js}, MaxEntries)
                          \ {<<>>},
            output : {<<>>},
            format : {Join(q) : q \in SeqsUpTo({s_cjs, s_es, s_modern}, MaxFormats)
                                          \ {<<>>}},
            formats : {DefaultFormats},
            external : {<<>>, s_none, n_lodash},
            watch : {FALSE},
            compress : {TRUE},
                         onBuild : {FALSE}]
    /\ \E deps \in {<<>>, <<n_react>>, <<n_react, n_lodash_debounce>>},
          peers \in {<<>>, <<n_preact>>} :
          pkg = [BarePkg EXCEPT !.dependencies = deps, !.peerDependencies = peers]
    /\ fsys = FsProject
    /\ mangleFile = "missing"
    /\ mangleIds = {}
    /\ sources = PlainSources

\* one entry; the manifest's name, main field and per-format overrides vary
InitManifest ==
    /\ inputOptions \in [entries : {<<p_src_index_js>>},
                         output : {<<>>},
                         format : {Join(<<s_cjs, s_es>>), Join(<<s_umd, s_modern>>),
                                   s_esm},
                         formats : {DefaultFormats},
                         external : {<<>>},
                         watch : {FALSE},
                         compress : {TRUE},
                         onBuild : {FALSE}]
    /\ \E name \in {n_demo, n_scoped_demo},
          main \in {<<>>, o_dist_demo_mjs, o_dist_demo_min_js},
          o \in [module : {<<>>, o_dist_demo_mjs, p_src_index_js},
                 jsnext : {<<>>, o_dist_demo_mjs},
                 cjsMain : {<<>>, o_dist_demo_min_js},
                 umdMain : {<<>>, o_out_m_umd_js},
                 esmodule : {<<>>, o_dist_demo_modern_mjs}] :
          pkg = [BarePkg EXCEPT !.name = name, !.main = main, !.overrides = o]
    /\ fsys = FsProject
    /\ mangleFile = "missing"
    /\ mangleIds = {}
    /\ sources = PlainSources

InitPlan ==
    /\ InitProgram
    /\ (InitPaths \/ InitResolve \/ InitManifest)

NextPlan == Microbundle

\* plan synthesis alone: entry resolution and output naming
SpecPlan == InitPlan /\ [][NextPlan]_vars

\* plan synthesis alone: the classification of externals
InitClassify == InitProgram /\ InitExternal

SpecExternal == InitClassify /\ [][NextPlan]_vars

(* ------------------------------------------------------------------ *)
(* microbundle: lines 104-121, the batch run                          *)
(*                                                                    *)
(* series() awaits each task before it calls the next, and rejects    *)
(* with the first rejection.  One task is three awaits: rollup(), the *)
(* bundle's write() and the step's _sizeInfo.                         *)
(* ------------------------------------------------------------------ *)
Running == pc = "batch" /\ cur <= Len(steps)

BundleOf(k) == [kind |-> "bundle", of |-> k]

Disabled == [kind |-> "false", of |-> 0]

\* cacheFor with a fault: the test of line 108 is dropped
cacheForEveryStep(step) == cache

\* lines 108-110: what the task stores in inputOptions.cache
cacheFor(step) == IF step.cache # "false" THEN cache ELSE Disabled

\* lines 108-112: rollup(inputOptions) resolves
Rollup ==
    /\ Running
    /\ phase = "rollup"
    /\ given' = Append(given, cacheFor(steps[cur]))
    /\ cache' = BundleOf(cur)
    /\ nameCaches' = [nameCaches EXCEPT ![cur] =
                        IF steps[cur].nameCacheHook THEN loadNameCache(@) ELSE @]
    /\ LET code == sources[steps[cur].entry]
           runs == transformRuns(steps[cur], cacheFor(steps[cur]))
       IN  /\ shebang' = IF runs THEN recordShebang(shebang, options.name, code)
                         ELSE shebang
           /\ recorded' = IF runs /\ HasShebang(code)
                          THEN recorded \cup {<<options.name, cur>>}
                          ELSE recorded
           /\ seen' = Put(seen, cur, stripShebang(code))
    /\ phase' = "write"
    /\ UNCHANGED <<env, watchers, banners, mangleFile, mangleIds, cacheLog, pc,
                   options, steps, cur, out, cacheWrites, cssExtracts>>

\* RollupFails with a fault: the rejection is swallowed and the next task runs
RollupFailureSwallowed ==
    /\ Running
    /\ phase = "rollup"
    /\ given' = Append(given, cacheFor(steps[cur]))
    /\ cur' = cur + 1
    /\ UNCHANGED <<env, shebangVars, cacheVars, watchers, mangleFile, pc, options, steps, phase, cache, out,
                   cacheWrites, cssExtracts>>

\* lines 108-111: rollup(inputOptions) rejects
RollupFails ==
    /\ Running
    /\ phase = "rollup"
    /\ given' = Append(given, cacheFor(steps[cur]))
    /\ pc' = "failed"
    /\ UNCHANGED <<env, shebangVars, cacheVars, watchers, mangleFile, options, steps, cur, phase, cache, out,
                   cacheWrites, cssExtracts>>

\* the writeBundle hook of lines 464-472
writesNameCache(step) == step.nameCacheHook /\ step.writeMeta

\* what a write of the cache file wrote (JSON.stringify(nameCache), line 468),
\* with the mapping the step's reload read, the mapping terser held after the
\* build and the identifiers terser added to it in the build
writeRecord(k, before, after) ==
    [step |-> k,
     fresh |-> ~before.aliased,
     wrote |-> nameCacheValue(after),
     reloaded |-> nameCacheValue(before),
     minified |-> after.terser,
     assigned |-> after.terser \ before.terser]

\* line 113: bundle.write(outputOptions) resolves; the postcss stage extracts
\* the stylesheet (line 354) and the writeBundle hooks run
Write ==
    /\ Running
    /\ phase = "write"
    /\ banners' = Put(banners, cur, bannerOf(shebang, options.name))
    /\ cssExtracts' = IF steps[cur].extract THEN cssExtracts \cup {cur}
                      ELSE cssExtracts
    /\ cacheWrites' = IF writesNameCache(steps[cur]) THEN cacheWrites \cup {cur}
                      ELSE cacheWrites
    /\ mangleFile' = IF writesNameCache(steps[cur]) THEN "valid" ELSE mangleFile
    /\ LET nc == IF inputOptions.compress
                 THEN minify(nameCaches[cur], steps[cur].entry)
                 ELSE nameCaches[cur]
       IN  /\ nameCaches' = [nameCaches EXCEPT ![cur] = nc]
           /\ mangleIds' = IF writesNameCache(steps[cur]) THEN nameCacheValue(nc)
                           ELSE mangleIds
           /\ cacheLog' = IF writesNameCache(steps[cur])
                          THEN Append(cacheLog, writeRecord(cur, nameCaches[cur], nc))
                          ELSE cacheLog
    /\ phase' = "size"
    /\ UNCHANGED <<env, watchers, shebang, recorded, seen, pc, options, steps,
                   cur, cache, given, out>>

\* line 113: bundle.write(outputOptions) rejects
WriteFails ==
    /\ Running
    /\ phase = "write"
    /\ pc' = "failed"
    /\ UNCHANGED <<env, shebangVars, cacheVars, watchers, mangleFile, options, steps, cur, phase, cache, given,
                   out, cacheWrites, cssExtracts>>

\* line 114: config._sizeInfo resolves and the task returns its text
CollectSize ==
    /\ Running
    /\ phase = "size"
    /\ out' = Append(out, cur)
    /\ cur' = cur + 1
    /\ phase' = "rollup"
    /\ UNCHANGED <<env, shebangVars, cacheVars, watchers, mangleFile, pc, options, steps, cache, given,
                   cacheWrites, cssExtracts>>

\* line 114: config._sizeInfo rejects
SizeFails ==
    /\ Running
    /\ phase = "size"
    /\ pc' = "failed"
    /\ UNCHANGED <<env, shebangVars, cacheVars, watchers, mangleFile, options, steps, cur, phase, cache, given,
                   out, cacheWrites, cssExtracts>>

\* lines 118-120: series() resolved, the report is returned
Return ==
    /\ pc = "batch"
    /\ cur > Len(steps)
    /\ pc' = "done"
    /\ UNCHANGED <<env, shebangVars, cacheVars, watchers, mangleFile, options, steps, cur, phase, cache, given,
                   out, cacheWrites, cssExtracts>>

\* batch runs: few entry lists, every format argument, every cache file
InitBatch ==
    /\ inputOptions \in [entries : {<<>>, <<p_src_index_js>>, <<p_src_x_js>>,
                                    <<p_src_index_js, p_src_a_js>>},
                         output : {<<>>},
                         format : FormatArgs,
                         formats : {DefaultFormats},
                         external : {<<>>},
                         watch : {FALSE},
                         compress : BOOLEAN,
                         onBuild : {FALSE}]
    /\ pkg = [BarePkg EXCEPT !.dependencies = <<n_react>>]
    /\ fsys \in {FsProject, FsEmpty}
    /\ mangleFile \in {"missing", "corrupt", "valid"}
    /\ mangleIds = IF mangleFile = "valid" THEN {"a"} ELSE {}
    /\ sources = PlainSources

Init == InitProgram /\ InitBatch

Next ==
    \/ Microbundle
    \/ Rollup
    \/ RollupFails
    \/ Write
    \/ WriteFails
    \/ CollectSize
    \/ SizeFails
    \/ Return

Spec == Init /\ [][Next]_vars

(* ------------------------------------------------------------------ *)
(* doWatch: the watchers at work                                      *)
(*                                                                    *)
(* The promise doWatch returns is never settled (resolve and reject   *)
(* of line 125 are not used), so pc stays "watch".  A file may change *)
(* at any time; a change during a build makes the watcher build again *)
(* when that build is over.                                           *)
(* ------------------------------------------------------------------ *)
Watching(k) == pc = "watch" /\ k \in DOMAIN watchers

\* a watched file of step k changes (the environment; at most MaxBuilds - 1
\* changes are followed by a build)
FileChange(k) ==
    /\ Watching(k)
    /\ ~watchers[k].dirty
    /\ watchers[k].runs < MaxBuilds
    /\ watchers' = [watchers EXCEPT ![k].dirty = TRUE]
    /\ UNCHANGED <<env, shebangVars, cacheVars, mangleFile, pc, options, steps, cur, phase, cache,
                   given, out, cacheWrites, cssExtracts>>

\* the watcher of step k starts a build: event START
WatchStart(k) ==
    /\ Watching(k)
    /\ watchers[k].state = "idle"
    /\ watchers[k].dirty
    /\ watchers' = [watchers EXCEPT ![k] =
                      onEvent([@ EXCEPT !.state = "building", !.dirty = FALSE,
                                        !.runs = @ + 1, !.last = "START"],
                              "START")]
    /\ UNCHANGED <<env, shebangVars, cacheVars, mangleFile, pc, options, steps, cur, phase, cache,
                   given, out, cacheWrites, cssExtracts>>

\* the build of step k was written (the hooks of lines 354 and 464-472 ran):
\* event END
WatchEnd(k) ==
    /\ Watching(k)
    /\ watchers[k].state = "building"
    /\ LET code == sources[steps[k].entry]
           table == recordShebang(shebang, options.name, code)
       IN  /\ shebang' = table
           /\ recorded' = IF HasShebang(code)
                          THEN recorded \cup {<<options.name, k>>}
                          ELSE recorded
           /\ seen' = Put(seen, k, stripShebang(code))
           /\ banners' = Put(banners, k, bannerOf(table, options.name))
    /\ cssExtracts' = IF steps[k].extract THEN cssExtracts \cup {k}
                      ELSE cssExtracts
    /\ cacheWrites' = IF writesNameCache(steps[k]) THEN cacheWrites \cup {k}
                      ELSE cacheWrites
    /\ mangleFile' = IF writesNameCache(steps[k]) THEN "valid" ELSE mangleFile
    /\ LET loaded == IF steps[k].nameCacheHook THEN loadNameCache(nameCaches[k])
                     ELSE nameCaches[k]
           nc == IF inputOptions.compress THEN minify(loaded, steps[k].entry)
                 ELSE loaded
       IN  /\ nameCaches' = [nameCaches EXCEPT ![k] = nc]
           /\ mangleIds' = IF writesNameCache(steps[k]) THEN nameCacheValue(nc)
                           ELSE mangleIds
           /\ cacheLog' = IF writesNameCache(steps[k])
                          THEN Append(cacheLog, writeRecord(k, loaded, nc))
                          ELSE cacheLog
    /\ watchers' = [watchers EXCEPT ![k] =
                      onEvent([@ EXCEPT !.state = "idle", !.last = "END"],
                              "END")]
    /\ UNCHANGED <<env, pc, options, steps, cur, phase, cache, given, out>>

\* the build of step k threw: event ERROR
WatchError(k) ==
    /\ Watching(k)
    /\ watchers[k].state = "building"
    /\ watchers' = [watchers EXCEPT ![k] =
                      onEvent([@ EXCEPT !.state = "idle", !.last = "ERROR"],
                              "ERROR")]
    /\ UNCHANGED <<env, shebangVars, cacheVars, mangleFile, pc, options, steps, cur, phase, cache,
                   given, out, cacheWrites, cssExtracts>>

\* lines 138-140: _sizeInfo resolved, the reaction prints the report
PrintSize(k) ==
    /\ Watching(k)
    /\ watchers[k].pending > 0
    /\ watchers' = [watchers EXCEPT ![k].pending = @ - 1,
                                    ![k].did = Append(@, "stdout")]
    /\ UNCHANGED <<env, shebangVars, cacheVars, mangleFile, pc, options, steps, cur, phase, cache,
                   given, out, cacheWrites, cssExtracts>>

\* watch runs: one or two steps, with and without a rebuild callback
InitWatch ==
    /\ inputOptions \in [entries : {<<p_src_index_js>>,
                                    <<p_src_index_js, p_src_a_js>>},
                         output : {<<>>},
                         format : {s_cjs},
                         formats : {DefaultFormats},
                         external : {<<>>},
                         watch : {TRUE},
                         compress : {TRUE},
                         onBuild : BOOLEAN]
    /\ pkg = [BarePkg EXCEPT !.dependencies = <<n_react>>]
    /\ fsys = FsProject
    /\ mangleFile \in {"missing", "valid"}
    /\ mangleIds = IF mangleFile = "valid" THEN {"a"} ELSE {}
    /\ sources = PlainSources

InitWatching == InitProgram /\ InitWatch

\* the steps a plan of InitWatch can have
WatcherIds == 1..2

NextWatch ==
    \/ Microbundle
    \/ \E k \in WatcherIds : FileChange(k)
    \/ \E k \in WatcherIds : WatchStart(k)
    \/ \E k \in WatcherIds : WatchEnd(k)
    \/ \E k \in WatcherIds : WatchError(k)
    \/ \E k \in WatcherIds : PrintSize(k)

\* a build ends, a pending build starts and a resolved promise's reaction
\* runs; whether a file changes, and whether a build throws, is not fair
SpecWatch ==
    /\ InitWatching
    /\ [][NextWatch]_vars
    /\ \A k \in WatcherIds :
         /\ WF_vars(WatchStart(k))
         /\ WF_vars(WatchEnd(k) \/ WatchError(k))
         /\ WF_vars(PrintSize(k))

(* ------------------------------------------------------------------ *)
(* Properties                                                      *)
(* ------------------------------------------------------------------ *)
\* the plan has been built
Planned == pc # "start"

StepIndices == 1..Len(steps)

\* the format names the invocation asked for, duplicates removed
RequestedFormats == Range(Split(Or(inputOptions.format, inputOptions.formats)))

\* C1: the plan has N x M steps, N the resolved entries and M the requested
\* formats, both without duplicates, and when cjs is requested the first step
\* builds the first entry as cjs.
C1_PlanSize ==
    Planned =>
        /\ Len(steps) = Len(options.entries) * Cardinality(RequestedFormats)
        /\ (s_cjs \in RequestedFormats /\ Len(steps) > 0) =>
               (steps[1].format = s_cjs /\ steps[1].entry = options.entries[1])

\* C2: the output files of two different steps of a plan are different; a
\* plan in which they would collide is never built.
C2_DistinctOutputs ==
    Planned =>
        \A i, j \in StepIndices : i # j => steps[i].file # steps[j].file

\* the suffix the naming convention gives a format
FormatSuffix(format) ==
    IF format = s_cjs THEN s_dot_js
    ELSE IF format = s_es \/ format = s_esm THEN s_dot \o s_esm \o s_dot_js
    ELSE IF format = s_umd THEN s_dot \o s_umd \o s_dot_js
    ELSE s_dot \o s_modern \o s_dot_js

\* C3: in a single-entry plan without manifest overrides, the output file of
\* the step of each format is the resolved main path, stripped of its format
\* suffix and extension, followed by the suffix of the format (.js for cjs,
\* .esm.js for es and esm, .umd.js for umd, .modern.js for modern).
C3_FormatSuffix ==
    (Planned /\ Len(options.entries) = 1 /\ pkg.overrides = NoOverrides) =>
        \A k \in StepIndices :
            steps[k].file =
                stripExtension(options.output) \o FormatSuffix(steps[k].format)

\* C4: every plan has exactly one primary step, the first one, and no other
\* step ever writes the mangle cache file or extracts the stylesheet.
C4_OnePrimary ==
    Planned =>
        /\ {k \in StepIndices : steps[k].writeMeta} = {1}
        /\ cacheWrites \subseteq {1}
        /\ cssExtracts \subseteq {1}

\* the module specifiers the external predicates are asked about
Specifiers ==
    {n_react, n_react \o <<"/","j","s","x">>, n_react \o <<"-","d","o","m">>,
     n_preact, n_lodash, n_lodash_debounce,
     n_lodash \o <<"-">> \o n_debounce, n_lodash_debounce \o <<"/","x">>,
     s_fs, s_fs \o <<"/","p">>, s_fs \o <<"x">>, s_dot, s_helpers,
     f_src_index_js, f_src_a_js, f_lib_a_js,
     f_src_a_js \o <<"/","x">>, s_cwd \o s_slash \o s_src_slash \o <<"a","-","j","s">>}

\* id is name, or a '/'-separated path nested under it
IsOrUnder(id, name) == id = name \/ StartsWith(id, name \o s_slash)

\* the names the default classification externalises for a step
DeclaredExternals(step) ==
    {s_dns, s_fs, s_path, s_url}
        \cup Range(pkg.peerDependencies)
        \cup Range(pkg.dependencies)
        \cup (Range(options.entries) \ {step.entry})

\* C5: with no external override, a step's predicate is true of a specifier
\* exactly when the specifier is, or is nested under, a built-in, a
\* peerDependency, a dependency or another entry of the plan.
C5_ExternalExact ==
    (Planned /\ inputOptions.external = <<>>) =>
        \A k \in StepIndices : \A id \in Specifiers :
            externalOf(steps[k], id)
                <=> \E name \in DeclaredExternals(steps[k]) : IsOrUnder(id, name)

\* C6 as stated: all steps of a plan answer alike on every specifier.
C6_SameInEveryStep ==
    Planned =>
        \A i, j \in StepIndices : \A id \in Specifiers :
            externalOf(steps[i], id) = externalOf(steps[j], id)

\* id matches the path of an entry of the plan under the predicate's pattern
MatchesAnEntry(id) ==
    \E k \in 1..Len(options.entries) : MatchAlternative(options.entries[k], id)

\* C6, amended: the steps that build the same entry answer alike on every
\* specifier, whatever their formats; steps of different entries answer alike
\* on every specifier that matches no entry path of the plan.
C6_SameAcrossFormats ==
    Planned =>
        \A i, j \in StepIndices : \A id \in Specifiers :
            (steps[i].entry = steps[j].entry \/ ~MatchesAnEntry(id)) =>
                externalOf(steps[i], id) = externalOf(steps[j], id)

\* C6 witness: a plan of several entries and several formats in which an
\* entry path is external to the steps of the other entry
C6_Witness ==
    /\ Planned
    /\ Len(options.entries) > 1
    /\ Len(options.formats) > 1
    /\ \E i, j \in StepIndices :
          /\ steps[i].entry # steps[j].entry
          /\ steps[i].format # steps[j].format
          /\ externalOf(steps[i], steps[j].entry)
          /\ externalOf(steps[i], n_react) /\ externalOf(steps[j], n_react)

\* C7: with the external override `none`, the external list of every step is
\* empty and its predicate is true of no specifier.
C7_NoneBundlesAll ==
    (Planned /\ inputOptions.external = s_none) =>
        \A k \in StepIndices :
            /\ steps[k].external = <<>>
            /\ \A id \in Specifiers : ~externalOf(steps[k], id)

\* C8: an invocation that resolves no entry does not complete successfully.
C8_NoEntryFails ==
    pc = "done" => Len(options.entries) > 0

\* C9: batch steps run one at a time in plan order; a step starts only after
\* its predecessors were built, written and reported; after a failure no step
\* starts and no report is returned.
C9_InPlanOrder ==
    /\ [](/\ out = [k \in 1..Len(out) |-> k]
          /\ Len(given) \in {Len(out), Len(out) + 1}
          /\ Len(given) > Len(out) => (cur = Len(given) /\ pc \in {"batch", "failed"})
          /\ pc = "done" => (Len(out) = Len(steps) /\ Len(given) = Len(steps))
          /\ pc = "failed" => (Len(out) < Len(steps) /\ Len(given) = Len(out) + 1))
    /\ [][pc = "failed" => (pc' = "failed" /\ given' = given /\ out' = out)]_vars

\* C9 witness: the second of at least three steps failed in its write
C9_Witness ==
    /\ pc = "failed"
    /\ phase = "write"
    /\ out = <<1>>
    /\ Len(given) = 2
    /\ Len(steps) > 2

\* C10: a step that is not modern is built with the bundle of the step run
\* just before it as its cache (none for the first step); a modern step is
\* built with the cache disabled.
C10_CacheHandOver ==
    \A k \in 1..Len(given) :
        given[k] = IF steps[k].format = s_modern THEN Disabled
                   ELSE IF k = 1 THEN NoBundle
                   ELSE BundleOf(k - 1)

\* C10 witness: a modern step ran without cache after a step that was built,
\* and the step after it received the modern step's bundle
C10_Witness ==
    \E k \in 2..(Len(given) - 1) :
        /\ steps[k].format = s_modern
        /\ given[k] = Disabled
        /\ steps[k + 1].format # s_modern
        /\ given[k + 1] = BundleOf(k)
        /\ (k - 1) \in Range(out)

(* ------------------------------------------------------------------ *)
(* Watch mode                                                         *)
(* ------------------------------------------------------------------ *)
\* the last thing the handler of watcher k did
LastDid(w) == IF w.did = <<>> THEN "nothing" ELSE w.did[Len(w.did)]

\* the build of watcher k ends in this step with event `code`
Ends(k, code) ==
    /\ Watching(k)
    /\ watchers[k].state = "building"
    /\ watchers'[k].last = code
    /\ watchers'[k].state # "building"

\* C11: in watch mode an ERROR event is logged and changes nothing else: the
\* watcher of that step is idle and alive, the other watchers are as they
\* were and the invocation goes on watching; a file change at any watcher is
\* followed by a rebuild, an END event calls the rebuild callback (when one
\* is given) and registers the printing of the size report, which is printed.
C11_ErrorsDoNotStopWatching ==
    /\ [](pc = "watch" =>
            \A k \in DOMAIN watchers : watchers[k].state \in {"idle", "building"})
    /\ [][pc = "watch" => pc' = "watch"]_vars
    /\ [][\A k \in WatcherIds :
            Ends(k, "ERROR") =>
              /\ watchers'[k].did = Append(watchers[k].did, "logError")
              /\ watchers'[k].state = "idle"
              /\ watchers'[k].pending = watchers[k].pending
              /\ \A j \in DOMAIN watchers : j # k => watchers'[j] = watchers[j]]_vars
    /\ [][\A k \in WatcherIds :
            Ends(k, "END") =>
              /\ watchers'[k].pending = watchers[k].pending + 1
              /\ watchers'[k].did = IF inputOptions.onBuild
                                    THEN Append(watchers[k].did, "onBuild")
                                    ELSE watchers[k].did]_vars
    /\ \A k \in WatcherIds :
         /\ (Watching(k) /\ watchers[k].dirty)
              ~> (Watching(k) /\ watchers[k].state = "building" /\ ~watchers[k].dirty)
         /\ (Watching(k) /\ watchers[k].pending > 0)
              ~> (Watching(k) /\ watchers[k].pending = 0
                              /\ LastDid(watchers[k]) = "stdout")

\* a rebuild that failed was followed by a rebuild that succeeded: the error
\* was logged, then the callback was called and the report printed
C11_Witness ==
    /\ pc = "watch"
    /\ Len(watchers) = 2
    /\ inputOptions.onBuild
    /\ watchers[1].did = <<"logError", "onBuild", "stdout">>
    /\ watchers[1].last = "END"
    /\ watchers[2].did = <<"onBuild", "stdout">>

(* ------------------------------------------------------------------ *)
(* The mangle cache file                                              *)
(* ------------------------------------------------------------------ *)
\* the primary step of a batch run has been written
PrimaryWritten ==
    /\ pc \in {"batch", "done", "failed"}
    /\ Len(steps) > 0
    /\ (cur > 1 \/ phase = "size")

\* C12: a run never fails before its first task, whatever the cache file is,
\* and once the primary step of a minifying run is written there is a cache
\* file that parses: the one that was there, or a fresh one where the file
\* was missing or corrupt.
C12_FreshCacheWritten ==
    /\ (pc = "failed" => Len(given) > 0)
    /\ (PrimaryWritten /\ inputOptions.compress => mangleFile = "valid")

(* ------------------------------------------------------------------ *)
(* Shebang lines                                                      *)
(* ------------------------------------------------------------------ *)
\* batch runs over sources with and without a shebang line
InitShebang ==
    /\ inputOptions \in [entries : {<<p_src_index_js>>,
                                    <<p_src_index_js, p_src_a_js>>},
                         output : {<<>>},
                         format : {s_cjs, Join(<<s_cjs, s_modern>>),
                                   Join(<<s_es, s_cjs>>)},
                         formats : {DefaultFormats},
                         external : {<<>>},
                         watch : {FALSE},
                         compress : {TRUE},
                         onBuild : {FALSE}]
    /\ pkg = BarePkg
    /\ fsys = FsProject
    /\ mangleFile = "missing"
    /\ mangleIds = {}
    /\ \E first \in {c_plain, c_bang_a, c_bang_b},
          second \in {c_plain, c_bang_a, c_bang_b} :
          sources = [PlainSources EXCEPT ![f_src_index_js] = first,
                                         ![f_src_a_js] = second]

InitShebangs == InitProgram /\ InitShebang

SpecShebang == InitShebangs /\ [][Next]_vars

\* the steps whose output was written
WrittenSteps == {k \in StepIndices : Has(banners, k)}

\* the code of step k's entry
SourceOf(k) == sources[steps[k].entry]

\* C13: when the source of a step's entry begins with a shebang line, the
\* stage hands on the source without that line and the step's output is
\* given exactly that line as its banner.
C13_ShebangRoundTrip ==
    \A k \in WrittenSteps :
        HasShebang(SourceOf(k)) =>
            /\ Get(seen, k) = Drop(SourceOf(k), ShebangLength(SourceOf(k)))
            /\ Get(banners, k) = bangOf(SourceOf(k))

\* the banner half of C13 alone
C13_BannerIsOwnLine ==
    \A k \in WrittenSteps :
        HasShebang(SourceOf(k)) => Get(banners, k) = bangOf(SourceOf(k))

(* ------------------------------------------------------------------ *)
(* The mangle cache file under edits                                  *)
(* ------------------------------------------------------------------ *)
\* the mappings a cache file of the model can hold
CacheContents == {{}, {"a"}, {"a", "z"}}

\* someone else rewrites, corrupts or removes the cache file during the run
EditMangleFile ==
    /\ pc \in {"start", "batch"}
    /\ \E status \in {"valid", "corrupt", "missing"}, ids \in CacheContents :
         /\ status # "valid" => ids = {}
         /\ <<status, ids>> # <<mangleFile, mangleIds>>
         /\ mangleFile' = status
         /\ mangleIds' = ids
    /\ UNCHANGED <<env, shebangVars, nameCaches, cacheLog, watchers, pc, options,
                   steps, cur, phase, cache, given, out, cacheWrites, cssExtracts>>

\* minifying batch runs of one or two steps over every cache file
InitCache ==
    /\ inputOptions \in [entries : {<<p_src_index_js>>, <<p_src_a_js>>},
                         output : {<<>>},
                         format : {s_cjs, Join(<<s_cjs, s_es>>)},
                         formats : {DefaultFormats},
                         external : {<<>>},
                         watch : {FALSE},
                         compress : {TRUE},
                         onBuild : {FALSE}]
    /\ pkg = BarePkg
    /\ fsys = FsProject
    /\ mangleFile \in {"valid", "corrupt", "missing"}
    /\ mangleIds \in CacheContents
    /\ mangleFile # "valid" => mangleIds = {}
    /\ sources = PlainSources

InitCaches == InitProgram /\ InitCache

NextCache ==
    \/ Next
    \/ EditMangleFile

SpecCache == InitCaches /\ [][NextCache]_vars

\* C14: what the primary step writes to the cache file, after a reload that
\* read the file, is the mapping terser used and updated in that build, and
\* that mapping is the reloaded one extended with the identifiers terser
\* assigned in the build.
C14_WritesWhatTerserUsed ==
    \A i \in 1..Len(cacheLog) :
        cacheLog[i].fresh =>
            /\ cacheLog[i].step = 1
            /\ cacheLog[i].wrote = cacheLog[i].minified
            /\ cacheLog[i].wrote = cacheLog[i].reloaded \cup cacheLog[i].assigned

\* C15: no two steps of a plan record the shebang table under the same key,
\* and the banner of a step's output is the shebang line of that step's own
\* entry, or none when its entry has no shebang line.
C15_OneWriterPerKey ==
    /\ \A p \in recorded : \A q \in recorded : p[1] = q[1] => p[2] = q[2]
    /\ \A k \in WrittenSteps :
          Get(banners, k) = IF HasShebang(SourceOf(k)) THEN bangOf(SourceOf(k))
                            ELSE <<>>

====
